---- MODULE Spec2Model ----
(***************************************************************************)
(* Model of src/ipfs.rs: the client of the IPFS daemon's HTTP API.         *)
(*                                                                         *)
(* Text is modelled as a sequence of lexemes (short strings), so that      *)
(* concatenation, prefixes and counts of header lines can be checked.      *)
(* One invocation of one API operation is followed from the call, through  *)
(* the completion of its input futures, the endpoint resolution, the       *)
(* dispatch of the HTTP request, the streaming of the multipart body       *)
(* (add), the response and the decoding of the body.                       *)
(***************************************************************************)
EXTENDS Integers, Sequences, FiniteSets, TLC

VARIABLES
    hexIn,       \* sha256_to_cid: the input string
    hashRes,     \* sha256_to_cid: the result of the returned future
    descriptor,  \* the content of <home>/.ipfs/api
    urlRes,      \* the result of ipfs_api_url() of this invocation
    op,          \* the API operation invoked
    inputs,      \* the input futures of the invocation, in parameter order
    completed,   \* the input slots in the order in which they completed
    pc,          \* position of the operation's future
    addArgs,     \* add: payload stream and declared length
    boundary,    \* add: the boundary token generated for this call
    bodyOut,     \* add: the chunks the body stream has yielded so far
    bodyState,   \* add: state of the body stream
    requests,    \* the HTTP requests dispatched by this invocation
    response,    \* what the transport delivered for the request
    bodyUse,     \* what the operation did with the response body
    result       \* the outcome of the operation's future

vars == <<hexIn, hashRes, descriptor, urlRes, op, inputs, completed, pc,
          addArgs, boundary, bodyOut, bodyState, requests, response,
          bodyUse, result>>

----------------------------------------------------------------------------
(* Bounds of the model *)

MaxHexLen == 514
MaxDescLen == 3
MaxChunks == 2

----------------------------------------------------------------------------
(* Text helpers *)

CRLF == "\r\n"

RECURSIVE Flatten(_)
Flatten(chunks) ==
    IF chunks = <<>> THEN <<>> ELSE Head(chunks) \o Flatten(Tail(chunks))

Count(s, lexeme) == Cardinality({i \in 1..Len(s) : s[i] = lexeme})

IsSuffix(p, s) ==
    Len(p) <= Len(s) /\ SubSeq(s, Len(s) - Len(p) + 1, Len(s)) = p

----------------------------------------------------------------------------
(* sha256_to_cid *)

\* An input string of n characters, all hexadecimal digits except the one at
\* position bad (0 when there is none).
HexInputs == [n : 0..MaxHexLen, bad : {0, 1}]

\* hex::decode: fails on an odd number of characters and on a character that
\* is no hexadecimal digit, else yields n/2 bytes.
hex_decode(s) ==
    IF s.n % 2 # 0 \/ (s.bad # 0 /\ s.bad <= s.n)
    THEN [ok |-> FALSE, len |-> 0]
    ELSE [ok |-> TRUE, len |-> s.n \div 2]

DigestLenChecked == 256

sha256_to_cid(s) ==
    LET digest == hex_decode(s) IN
    IF digest.ok /\ digest.len = DigestLenChecked
    THEN [ok |-> TRUE, err |-> "", codec |-> "Raw", version |-> "V0",
          hashLen |-> digest.len]
    ELSE [ok |-> FALSE, err |-> "HashError", codec |-> "", version |-> "",
          hashLen |-> 0]

NoHash == [ok |-> FALSE, err |-> "pending", codec |-> "", version |-> "",
           hashLen |-> 0]

----------------------------------------------------------------------------
(* URLs *)

Url(scheme, host, port) ==
    [scheme |-> scheme, host |-> host, port |-> port, path |-> <<>>,
     query |-> <<>>]

IPFS_PUBLIC_API_URL == Url("https", "ipfs.io", "443")

\* Url::join of a relative reference onto a base whose path is "/": scheme,
\* host and port are kept, the path becomes the reference, the query is
\* dropped.
url_join(base, rel) == [base EXCEPT !.path = rel, !.query = <<>>]

append_pair(url, key, value) ==
    [url EXCEPT !.query = Append(@, <<key, value>>)]

SameBase(u, base) ==
    u.scheme = base.scheme /\ u.host = base.host /\ u.port = base.port

----------------------------------------------------------------------------
(* ipfs_api_url: the endpoint resolver *)

Ip4Values == {"127.0.0.1", "10.0.0.2"}
Ip6Values == {"::1"}
TcpValues == {"5001", "8080"}

\* The components a descriptor text can name: the three the resolver
\* understands, one the address parser knows but the resolver does not (udp),
\* and one the address parser itself rejects.
Components ==
    [proto : {"ip4"}, val : Ip4Values] \cup [proto : {"ip6"}, val : Ip6Values]
    \cup [proto : {"tcp"}, val : TcpValues]
    \cup [proto : {"udp"}, val : {"53"}]
    \cup [proto : {"bogus"}, val : {"x"}]

RECURSIVE SeqsUpTo(_, _)
SeqsUpTo(S, n) ==
    IF n = 0 THEN {<<>>}
    ELSE LET shorter == SeqsUpTo(S, n - 1) IN
         shorter \cup {Append(s, x) : s \in {t \in shorter : Len(t) = n - 1}, x \in S}

\* The file <home>/.ipfs/api: absent (or no home directory, or unreadable),
\* or a text naming a sequence of components.
NoFile == [readable |-> FALSE, comps |-> <<>>]
DescriptorFile(comps) == [readable |-> TRUE, comps |-> comps]
Descriptors == {NoFile} \cup {DescriptorFile(c) : c \in SeqsUpTo(Components, MaxDescLen)}

\* to_multiaddr: fails on a protocol it does not know.
to_multiaddr(comps) ==
    IF \E i \in 1..Len(comps) : comps[i].proto = "bogus"
    THEN [ok |-> FALSE, comps |-> <<>>]
    ELSE [ok |-> TRUE, comps |-> comps]

None == [some |-> FALSE, val |-> ""]
Some(v) == [some |-> TRUE, val |-> v]

\* The loop over the components: the last IP component and the last TCP
\* component are kept; any other component abandons the resolution.
RECURSIVE scan_components(_, _, _)
scan_components(comps, addr, port) ==
    IF comps = <<>> THEN [ok |-> TRUE, addr |-> addr, port |-> port]
    ELSE LET c == Head(comps) IN
         CASE c.proto = "ip4" -> scan_components(Tail(comps), Some(c), port)
           [] c.proto = "ip6" -> scan_components(Tail(comps), Some(c), port)
           [] c.proto = "tcp" -> scan_components(Tail(comps), addr, Some(c))
           [] OTHER -> [ok |-> FALSE, addr |-> None, port |-> None]

\* Url::parse of "http://<addr>:<port>/". An IPv6 address is formatted
\* without brackets, so the text after the first colon is no port number and
\* the parse fails.
url_parse_http(addr, port) ==
    IF addr.proto = "ip6" THEN [ok |-> FALSE, url |-> Url("", "", "")]
    ELSE [ok |-> TRUE, url |-> Url("http", addr.val, port.val)]

LocalUnavailable == [ok |-> FALSE, err |-> "LocalApiUnavailableError", url |-> Url("", "", "")]
Unresolved == [ok |-> FALSE, err |-> "unresolved", url |-> Url("", "", "")]

ipfs_api_url(file) ==
    IF ~file.readable THEN LocalUnavailable
    ELSE LET ma == to_multiaddr(file.comps) IN
         IF ~ma.ok THEN LocalUnavailable
         ELSE LET scan == scan_components(ma.comps, None, None) IN
              IF scan.ok /\ scan.addr.some /\ scan.port.some
              THEN LET parsed == url_parse_http(scan.addr.val, scan.port.val) IN
                   IF parsed.ok
                   THEN [ok |-> TRUE, err |-> "", url |-> parsed.url]
                   ELSE LocalUnavailable
              ELSE LocalUnavailable

----------------------------------------------------------------------------
(* The multipart stream encoder *)

BoundaryPrefix == "------------------------"

\* The 18 random alphanumeric characters of a boundary, as one lexeme.
RandomTokens == {"aB3dE6gH9jK2mN5pQ8", "Zy1Xw2Vu3Ts4Rq5Po6"}

multipart_boundary(random) == <<BoundaryPrefix, random>>

Boundaries == {multipart_boundary(r) : r \in RandomTokens}

\* Option<u64>: the length the caller declares, if any.
Lengths == {[some |-> FALSE, val |-> 0], [some |-> TRUE, val |-> 0],
            [some |-> TRUE, val |-> 4]}

\* Mutant: the Content-Length line is written whether or not a length is
\* declared.
multipart_begin_always_length(length, b) ==
    <<"POST /api/v0/add HTTP/1.1", CRLF, "Host: localhost:5001", CRLF>>
    \o <<"Content-Length: ", ToString(length.val), CRLF>>
    \o <<"Content-Type: multipart/form-data; boundary=">> \o b \o <<CRLF>>
    \o <<"--">> \o b \o <<CRLF, CRLF>>

multipart_begin(length, b) ==
    <<"POST /api/v0/add HTTP/1.1", CRLF, "Host: localhost:5001", CRLF>>
    \o (IF length.some
        THEN <<"Content-Length: ", ToString(length.val), CRLF>>
        ELSE <<>>)
    \o <<"Content-Type: multipart/form-data; boundary=">> \o b \o <<CRLF>>
    \o <<"--">> \o b \o <<CRLF, CRLF>>

\* Mutant: the closing delimiter lacks its final two hyphens.
multipart_end_unclosed(b) == <<CRLF, "--">> \o b \o <<CRLF>>

multipart_end(b) == <<CRLF, "--">> \o b \o <<"--", CRLF>>

\* Mutant: the second stream is drained before the first.
chain_second_first(s1, s2) == s2 \o s1

\* Stream::chain: every element of the first stream, then every element of
\* the second.
chain(s1, s2) == s1 \o s2

\* The payload streams a caller can pass: up to MaxChunks chunks, after
\* which the stream ends or fails with a payload error.
ChunkValues == {<<"a", "b">>, <<"c", "d">>}
Payloads == [chunks : SeqsUpTo(ChunkValues, MaxChunks), fails : BOOLEAN]

\* The body stream add hands to the HTTP client.
add_body(length, b, payload) ==
    chain(chain(<<multipart_begin(length, b)>>, payload.chunks),
          <<multipart_end(b)>>)

add_content_type(b) == <<"multipart/form-data", "; boundary=">> \o b

NoAddArgs == [payload |-> [chunks |-> <<>>, fails |-> FALSE],
              length |-> [some |-> FALSE, val |-> 0]]
NoBoundary == <<>>

----------------------------------------------------------------------------
(* The API operations *)

Ops == {"add", "get", "resolve", "ls", "linkPatch", "namePublish", "keyList"}

Cids == {"QmA", "QmB"}
Paths == {"/ipfs/QmA/x", "/ipns/name"}
Names == {"QmA", "docs"}
KeyNames == {"self", "k1"}
Bools == {"true", "false"}

\* The values the input future in slot i of an operation can yield, each as
\* the text its to_string gives.
SlotValues(o, i) ==
    CASE o = "get" -> Cids
      [] o = "resolve" -> Paths
      [] o = "ls" -> Names
      [] o = "linkPatch" -> IF i = 4 THEN Bools ELSE Cids
      [] o = "namePublish" -> IF i = 1 THEN Cids ELSE KeyNames
      [] OTHER -> {}

Arity(o) ==
    CASE o = "get" -> 1
      [] o = "resolve" -> 1
      [] o = "ls" -> 1
      [] o = "linkPatch" -> 4
      [] o = "namePublish" -> 2
      [] OTHER -> 0

\* The errors the parsers of this module give their futures.
InputErrors == {"HashError", "IpfsPathParseError"}

Pending == [st |-> "pending", val |-> "", err |-> ""]
Ready(v) == [st |-> "ok", val |-> v, err |-> ""]
Failed(e) == [st |-> "err", val |-> "", err |-> e]

\* The endpoint resolution seen as a future (future::result: complete when
\* it is created).
UrlFuture(res) == IF res.ok THEN Ready(res.url) ELSE Failed(res.err)

\* Mutant: the combined future is ready as soon as one of its futures is
\* (a select in the place of the join).
join_poll_select(futs) ==
    IF \E i \in 1..Len(futs) : futs[i].st = "ok"
    THEN [st |-> "ok", err |-> ""]
    ELSE IF \E i \in 1..Len(futs) : futs[i].st = "err"
         THEN [st |-> "err", err |-> "HashError"]
         ELSE [st |-> "pending", err |-> ""]

\* Future::join, join5: a poll polls the futures in order and fails with the
\* first error it meets; it is ready when all of them are.
join_poll(futs) ==
    IF \E i \in 1..Len(futs) : futs[i].st = "err"
    THEN LET first == CHOOSE i \in 1..Len(futs) :
                        /\ futs[i].st = "err"
                        /\ \A j \in 1..(i - 1) : futs[j].st # "err"
         IN [st |-> "err", err |-> futs[first].err]
    ELSE IF \A i \in 1..Len(futs) : futs[i].st = "ok"
         THEN [st |-> "ok", err |-> ""]
         ELSE [st |-> "pending", err |-> ""]

\* Mutant: get joins the resolver like ls does, without the fallback.
FallbackOpsWithoutGet == {"resolve", "namePublish"}

\* The operations that resolve the endpoint once their inputs are there
\* (and_then) and replace a failed resolution by a URL on the public gateway
\* (then). Every other operation joins the resolver's future with its
\* inputs, or maps over it: the resolver runs when the operation is called
\* and its failure is the operation's.
FallbackOps == {"get", "resolve", "namePublish"}

\* The URL each operation builds from the endpoint resolution res and the
\* values of its inputs.
add_url(res) == url_join(res.url, <<"api/v0/add">>)

get_url(res, cid) ==
    IF res.ok
    THEN append_pair(url_join(res.url, <<"api/v0/get">>), "arg", <<"/ipfs/", cid>>)
    ELSE url_join(IPFS_PUBLIC_API_URL, <<cid>>)

resolve_url(res, path) ==
    IF res.ok
    THEN append_pair(url_join(res.url, <<"api/v0/resolve">>), "arg", <<path>>)
    ELSE url_join(IPFS_PUBLIC_API_URL, <<path>>)

ls_url(res, name) ==
    append_pair(url_join(res.url, <<"api/v0/ls">>), "arg", <<name>>)

\* Mutant: the link name and the hash to add change places.
object_patch_link_url_swapped(res, modify_multihash, name, add_multihash, create) ==
    append_pair(
        append_pair(
            append_pair(
                append_pair(url_join(res.url, <<"api/v0/object/patch/add-link">>),
                            "arg", <<modify_multihash>>),
                "arg", <<add_multihash>>),
            "arg", <<name>>),
        "create", <<create>>)

object_patch_link_url(res, modify_multihash, name, add_multihash, create) ==
    append_pair(
        append_pair(
            append_pair(
                append_pair(url_join(res.url, <<"api/v0/object/patch/add-link">>),
                            "arg", <<modify_multihash>>),
                "arg", <<name>>),
            "arg", <<add_multihash>>),
        "create", <<create>>)

name_publish_url(res, cid, key) ==
    IF res.ok
    THEN append_pair(
             append_pair(url_join(res.url, <<"api/v0/name/publish">>),
                         "arg", <<"/ipfs/", cid>>),
             "key", <<key>>)
    ELSE url_join(IPFS_PUBLIC_API_URL, <<cid>>)

key_list_url(res) == url_join(res.url, <<"api/v0/key/list">>)

BuildUrl(o, res, in) ==
    CASE o = "add" -> add_url(res)
      [] o = "get" -> get_url(res, in[1].val)
      [] o = "resolve" -> resolve_url(res, in[1].val)
      [] o = "ls" -> ls_url(res, in[1].val)
      [] o = "linkPatch" ->
            object_patch_link_url(res, in[1].val, in[2].val, in[3].val, in[4].val)
      [] o = "namePublish" -> name_publish_url(res, in[1].val, in[2].val)
      [] o = "keyList" -> key_list_url(res)

Method(o) == IF o = "add" THEN "POST" ELSE "GET"

NoContentType == <<>>

Request(o, url, contentType) ==
    [method |-> Method(o), url |-> url, contentType |-> contentType]

\* The operations that look at the status of the response before its body.
StatusCheckedOps == {"get", "resolve", "ls", "linkPatch", "namePublish", "keyList"}

\* What each operation does with the body of a response it accepts.
Decoder(o) ==
    CASE o = "get" -> "stream"
      [] o = "namePublish" -> "text"
      [] OTHER -> "json"

DecodeError(o) ==
    IF o = "namePublish" THEN "IpfsApiPayloadError" ELSE "IpfsApiJsonPayloadError"

Statuses == {200, 204, 404, 500}

is_success(status) == 200 <= status /\ status < 300

NoResponse == [kind |-> "none", status |-> 0]
StatusResponse(s) == [kind |-> "status", status |-> s]
SendError == [kind |-> "sendError", status |-> 0]

ResultPending == [kind |-> "pending", err |-> "", status |-> 0]
Ok == [kind |-> "ok", err |-> "", status |-> 0]
Err(e) == [kind |-> "err", err |-> e, status |-> 0]
ResponseError(s) == [kind |-> "err", err |-> "IpfsApiResponseError", status |-> s]

----------------------------------------------------------------------------
(* One invocation of an API operation *)

\* The descriptor files an invocation is run against: none, a complete one,
\* one without a TCP port, one the URL parser rejects, one with a component
\* the resolver does not understand.
OpDescriptors ==
    {NoFile,
     DescriptorFile(<<[proto |-> "ip4", val |-> "127.0.0.1"],
                      [proto |-> "tcp", val |-> "5001"]>>),
     DescriptorFile(<<[proto |-> "ip4", val |-> "127.0.0.1"]>>),
     DescriptorFile(<<[proto |-> "ip6", val |-> "::1"],
                      [proto |-> "tcp", val |-> "5001"]>>),
     DescriptorFile(<<[proto |-> "ip4", val |-> "10.0.0.2"],
                      [proto |-> "udp", val |-> "53"]>>)}

hashVars == <<hexIn, hashRes>>
streamVars == <<boundary, bodyOut, bodyState>>

Init ==
    /\ hexIn = [n |-> 0, bad |-> 0]
    /\ hashRes = NoHash
    /\ descriptor \in OpDescriptors
    /\ urlRes = Unresolved
    /\ op = "none"
    /\ inputs = <<>>
    /\ completed = <<>>
    /\ pc = "idle"
    /\ addArgs = NoAddArgs
    /\ boundary = NoBoundary
    /\ bodyOut = <<>>
    /\ bodyState = "none"
    /\ requests = <<>>
    /\ response = NoResponse
    /\ bodyUse = "none"
    /\ result = ResultPending

\* The call of an operation builds its future. An operation outside
\* FallbackOps calls ipfs_api_url() right there.
Call(o, args) ==
    /\ op' = o
    /\ inputs' = [i \in 1..Arity(o) |-> Pending]
    /\ urlRes' = IF o \in FallbackOps THEN Unresolved ELSE ipfs_api_url(descriptor)
    /\ addArgs' = args
    /\ pc' = "inputs"
    /\ UNCHANGED <<hashVars, descriptor, completed, streamVars, requests,
                   response, bodyUse, result>>

Add ==
    /\ pc = "idle"
    /\ \E p \in Payloads, l \in Lengths : Call("add", [payload |-> p, length |-> l])

Get ==
    /\ pc = "idle"
    /\ Call("get", NoAddArgs)

Resolve ==
    /\ pc = "idle"
    /\ Call("resolve", NoAddArgs)

Ls ==
    /\ pc = "idle"
    /\ Call("ls", NoAddArgs)

ObjectPatchLink ==
    /\ pc = "idle"
    /\ Call("linkPatch", NoAddArgs)

NamePublish ==
    /\ pc = "idle"
    /\ Call("namePublish", NoAddArgs)

KeyList ==
    /\ pc = "idle"
    /\ Call("keyList", NoAddArgs)

\* An input future of the pending operation completes, with a value or with
\* an error.
CompleteInput ==
    /\ pc = "inputs"
    /\ \E i \in 1..Arity(op) :
          /\ inputs[i].st = "pending"
          /\ \E outcome \in {Ready(v) : v \in SlotValues(op, i)}
                            \cup {Failed(e) : e \in InputErrors} :
                inputs' = [inputs EXCEPT ![i] = outcome]
          /\ completed' = Append(completed, i)
    /\ UNCHANGED <<hashVars, descriptor, urlRes, op, pc, addArgs, streamVars,
                   requests, response, bodyUse, result>>

\* The futures the head of the operation's chain waits for.
Awaited == IF op \in FallbackOps THEN inputs ELSE <<UrlFuture(urlRes)>> \o inputs

\* A poll of the operation while it waits for its inputs. On an error the
\* operation ends with it. Once everything is there the endpoint is resolved
\* (FallbackOps), the URL is built and the request is dispatched; add draws
\* its boundary and starts the body stream.
PollInputs ==
    /\ pc = "inputs"
    /\ LET j == join_poll(Awaited) IN
       /\ j.st # "pending"
       /\ IF j.st = "err"
          THEN /\ pc' = "done"
               /\ result' = Err(j.err)
               /\ UNCHANGED <<urlRes, requests, streamVars>>
          ELSE LET res == IF op \in FallbackOps THEN ipfs_api_url(descriptor)
                          ELSE urlRes
               IN /\ urlRes' = res
                  /\ pc' = "sending"
                  /\ result' = result
                  /\ IF op = "add"
                     THEN \E r \in RandomTokens :
                            LET b == multipart_boundary(r) IN
                            /\ boundary' = b
                            /\ bodyState' = "streaming"
                            /\ bodyOut' = <<>>
                            /\ requests' = Append(requests,
                                   Request(op, BuildUrl(op, res, inputs),
                                           add_content_type(b)))
                     ELSE /\ requests' = Append(requests,
                                   Request(op, BuildUrl(op, res, inputs),
                                           NoContentType))
                          /\ UNCHANGED streamVars
    /\ UNCHANGED <<hashVars, descriptor, op, inputs, completed, addArgs,
                   response, bodyUse>>

\* The HTTP client polls the body stream of add for its next chunk. A payload
\* stream that fails makes the send fail.
PollBody ==
    /\ pc = "sending"
    /\ bodyState = "streaming"
    /\ LET body == add_body(addArgs.length, boundary, addArgs.payload)
           n == Len(bodyOut)
       IN IF addArgs.payload.fails /\ n = 1 + Len(addArgs.payload.chunks)
          THEN /\ bodyState' = "failed"
               /\ response' = SendError
               /\ UNCHANGED bodyOut
          ELSE /\ bodyOut' = Append(bodyOut, body[n + 1])
               /\ bodyState' = IF n + 1 = Len(body) THEN "closed" ELSE "streaming"
               /\ UNCHANGED response
    /\ UNCHANGED <<hashVars, descriptor, urlRes, op, inputs, completed, pc,
                   addArgs, boundary, requests, bodyUse, result>>

\* The transport delivers the daemon's response, or fails (for add also by
\* the 600 s timeout). The daemon answers an add once it has the whole body.
Respond ==
    /\ pc = "sending"
    /\ response = NoResponse
    /\ op = "add" => bodyState = "closed"
    /\ \E r \in {StatusResponse(s) : s \in Statuses} \cup {SendError} :
          response' = r
    /\ UNCHANGED <<hashVars, descriptor, urlRes, op, inputs, completed, pc,
                   addArgs, streamVars, requests, bodyUse, result>>

\* A poll of the operation once the send has completed.
PollResponse ==
    /\ pc = "sending"
    /\ response # NoResponse
    /\ IF response = SendError
       THEN /\ result' = Err("IpfsApiSendRequestError")
            /\ pc' = "done"
            /\ UNCHANGED bodyUse
       ELSE IF op \in StatusCheckedOps /\ ~is_success(response.status)
       THEN /\ result' = ResponseError(response.status)
            /\ pc' = "done"
            /\ UNCHANGED bodyUse
       ELSE /\ bodyUse' = Decoder(op)
            /\ IF op = "get"
               THEN result' = Ok /\ pc' = "done"
               ELSE result' = result /\ pc' = "decoding"
    /\ UNCHANGED <<hashVars, descriptor, urlRes, op, inputs, completed,
                   addArgs, streamVars, requests, response>>

\* The future reading and decoding the response body completes.
DecodeBody ==
    /\ pc = "decoding"
    /\ \E decoded \in BOOLEAN :
          result' = IF decoded THEN Ok ELSE Err(DecodeError(op))
    /\ pc' = "done"
    /\ UNCHANGED <<hashVars, descriptor, urlRes, op, inputs, completed,
                   addArgs, streamVars, requests, response, bodyUse>>

Next ==
    \/ Add
    \/ Get
    \/ Resolve
    \/ Ls
    \/ ObjectPatchLink
    \/ NamePublish
    \/ KeyList
    \/ CompleteInput
    \/ PollInputs
    \/ PollBody
    \/ Respond
    \/ PollResponse
    \/ DecodeBody

Spec == Init /\ [][Next]_vars

----------------------------------------------------------------------------
(* sha256_to_cid applied to every input string *)

opVars == <<op, inputs, completed, pc, addArgs, boundary, bodyOut, bodyState,
            requests, response, bodyUse, result>>

IdleOp ==
    /\ op = "none"
    /\ inputs = <<>>
    /\ completed = <<>>
    /\ pc = "idle"
    /\ addArgs = NoAddArgs
    /\ boundary = NoBoundary
    /\ bodyOut = <<>>
    /\ bodyState = "none"
    /\ requests = <<>>
    /\ response = NoResponse
    /\ bodyUse = "none"
    /\ result = ResultPending

InitHash ==
    /\ hexIn \in HexInputs
    /\ hashRes = NoHash
    /\ descriptor = NoFile
    /\ urlRes = Unresolved
    /\ IdleOp

Sha256ToCid ==
    /\ hashRes = NoHash
    /\ hashRes' = sha256_to_cid(hexIn)
    /\ UNCHANGED <<hexIn, descriptor, urlRes, opVars>>

NextHash == Sha256ToCid

SpecHash == InitHash /\ [][NextHash]_vars

----------------------------------------------------------------------------
(* ipfs_api_url applied to every descriptor file *)

InitResolver ==
    /\ hexIn = [n |-> 0, bad |-> 0]
    /\ hashRes = NoHash
    /\ descriptor \in Descriptors
    /\ urlRes = Unresolved
    /\ IdleOp

IpfsApiUrl ==
    /\ urlRes = Unresolved
    /\ urlRes' = ipfs_api_url(descriptor)
    /\ UNCHANGED <<hashVars, descriptor, opVars>>

NextResolver == IpfsApiUrl

SpecResolver == InitResolver /\ [][NextResolver]_vars

----------------------------------------------------------------------------
(* Properties *)

ResolutionFails == ~ipfs_api_url(descriptor).ok

AllInputsOk == \A i \in 1..Arity(op) : inputs[i].st = "ok"
SomeInputFailed == \E i \in 1..Arity(op) : inputs[i].st = "err"

\* C1: when the local endpoint resolution fails, get, resolve and namePublish
\* never fail with LocalApiUnavailableError and, once their inputs are there,
\* dispatch their one request against the public gateway base
\* https://ipfs.io/; add, ls, linkPatch and keyList fail with
\* LocalApiUnavailableError and dispatch no request.
C1_FallbackOrPropagate ==
    ResolutionFails =>
        /\ op \in {"get", "resolve", "namePublish"} =>
              /\ result.err # "LocalApiUnavailableError"
              /\ \A k \in 1..Len(requests) :
                    SameBase(requests[k].url, Url("https", "ipfs.io", "443"))
              /\ (pc \in {"sending", "decoding", "done"} /\ AllInputsOk) =>
                    Len(requests) = 1
        /\ op \in {"add", "ls", "linkPatch", "keyList"} =>
              /\ requests = <<>>
              /\ pc \in {"inputs", "done"}
              /\ pc = "done" => result = Err("LocalApiUnavailableError")
              /\ pc = "inputs" => ENABLED PollInputs

\* C1 witness: without a descriptor file get has sent its request to the
\* public gateway and ended well.
C1_Witness ==
    /\ op = "get"
    /\ descriptor = NoFile
    /\ urlRes = LocalUnavailable
    /\ Len(requests) = 1
    /\ requests[1].url.host = "ipfs.io"
    /\ result = Ok

\* C2: in every operation a response with a non-success status s ends the
\* operation with IpfsApiResponseError(s), and the body is neither decoded
\* nor streamed.
C2_NonSuccessStatusIsError ==
    (/\ response.kind = "status"
     /\ ~is_success(response.status)
     /\ pc \in {"decoding", "done"}) =>
        /\ result = ResponseError(response.status)
        /\ bodyUse = "none"

\* The boundary token announced in the Content-Type header of the request.
AnnouncedBoundary == SubSeq(requests[1].contentType, 3, 4)

\* C3 as stated: the bytes of the body are preamble(B), the payload chunks and
\* "--B--\r\n", with B the token of the Content-Type header, and nothing
\* else.
C3_BodyIsPreamblePayloadDelimiter ==
    bodyState = "closed" =>
        Flatten(bodyOut) =
            multipart_begin(addArgs.length, AnnouncedBoundary)
            \o Flatten(addArgs.payload.chunks)
            \o <<"--">> \o AnnouncedBoundary \o <<"--", CRLF>>

\* C3 as amended: the bytes of the body are preamble(B), the payload chunks
\* and "\r\n--B--\r\n", with B the token of the Content-Type header, which
\* is also the token of the preamble's opening delimiter: between the payload
\* and the closing delimiter lies one line break and nothing else.
C3_BodyIsPreamblePayloadCrlfDelimiter ==
    bodyState = "closed" =>
        /\ requests[1].contentType =
              <<"multipart/form-data", "; boundary=">> \o AnnouncedBoundary
        /\ AnnouncedBoundary \in Boundaries
        /\ IsSuffix(<<"--">> \o AnnouncedBoundary \o <<CRLF, CRLF>>, bodyOut[1])
        /\ Flatten(bodyOut) =
              multipart_begin(addArgs.length, AnnouncedBoundary)
              \o Flatten(addArgs.payload.chunks)
              \o <<CRLF, "--">> \o AnnouncedBoundary \o <<"--", CRLF>>

\* C3 witness: a body of two different chunks has been streamed to its end.
C3_Witness ==
    /\ bodyState = "closed"
    /\ Len(addArgs.payload.chunks) = 2
    /\ addArgs.payload.chunks[1] # addArgs.payload.chunks[2]
    /\ ~addArgs.length.some

\* C4: the body stream yields the preamble once and first, then every chunk
\* of the payload once, in order and unchanged, then the terminator once and
\* last, only after the payload has ended; a failing payload ends the body
\* before the terminator.
C4_PreamblePayloadTerminator ==
    bodyState # "none" =>
        LET chunks == addArgs.payload.chunks
            pre == multipart_begin(addArgs.length, boundary)
            term == <<CRLF, "--">> \o boundary \o <<"--", CRLF>>
            n == Len(bodyOut)
        IN /\ n <= Len(chunks) + 2
           /\ \A i \in 1..n :
                 bodyOut[i] = IF i = 1 THEN pre
                              ELSE IF i <= Len(chunks) + 1 THEN chunks[i - 1]
                              ELSE term
           /\ bodyState = "closed" <=> n = Len(chunks) + 2
           /\ bodyState = "failed" =>
                 addArgs.payload.fails /\ n = Len(chunks) + 1
           /\ n = Len(chunks) + 2 => ~addArgs.payload.fails

\* C4 witness: the terminator has followed two different chunks.
C4_Witness ==
    /\ bodyState = "closed"
    /\ Len(bodyOut) = 4
    /\ bodyOut[2] = <<"c", "d">>
    /\ bodyOut[3] = <<"a", "b">>

\* C5: sha256_to_cid succeeds exactly on the valid hexadecimal strings that
\* decode to 32 bytes (64 characters) and gives HashError on every other
\* string.
C5_SucceedsExactlyOn32Bytes ==
    hashRes # NoHash =>
        /\ hashRes.ok <=> (hex_decode(hexIn).ok /\ hexIn.n = 64)
        /\ ~hashRes.ok => hashRes.err = "HashError"

IpCount(comps) ==
    Cardinality({i \in 1..Len(comps) : comps[i].proto \in {"ip4", "ip6"}})
TcpCount(comps) ==
    Cardinality({i \in 1..Len(comps) : comps[i].proto = "tcp"})

\* C6: the resolver succeeds only on a descriptor of exactly one IP component
\* and exactly one TCP-port component and nothing else, with the URL
\* http://<ip>:<port>/ of these two; a descriptor with no IP, no TCP port,
\* several IPs, several TCP ports or another component fails with
\* LocalApiUnavailableError.
C6_ExactlyOneIpAndPort ==
    urlRes # Unresolved =>
        LET comps == descriptor.comps IN
        IF /\ descriptor.readable
           /\ IpCount(comps) = 1
           /\ TcpCount(comps) = 1
           /\ Len(comps) = 2
        THEN urlRes.ok =>
                \E i, j \in 1..2 :
                    /\ comps[i].proto \in {"ip4", "ip6"}
                    /\ comps[j].proto = "tcp"
                    /\ urlRes.url = Url("http", comps[i].val, comps[j].val)
        ELSE urlRes = LocalUnavailable

\* C7: every request of namePublish, with the local base or the public one,
\* is a GET of /api/v0/name/publish with the query arg=/ipfs/<hash> and then
\* key=<keyName>.
C7_NamePublishRequest ==
    (op = "namePublish" /\ requests # <<>>) =>
        /\ requests[1].method = "GET"
        /\ requests[1].url.path = <<"api/v0/name/publish">>
        /\ requests[1].url.query =
              << <<"arg", <<"/ipfs/", inputs[1].val>> >>,
                 <<"key", <<inputs[2].val>> >> >>

\* C8: the preamble holds no Content-Length line when no length is declared
\* and exactly one, with the declared value, when one is; it holds exactly
\* one Content-Type line naming the boundary and ends with the opening
\* delimiter --<boundary> and a blank line.
C8_PreambleHeaders ==
    bodyOut # <<>> =>
        LET pre == bodyOut[1]
            lengthAt == {i \in 1..Len(pre) : pre[i] = "Content-Length: "}
            typeAt == {i \in 1..Len(pre) :
                          pre[i] = "Content-Type: multipart/form-data; boundary="}
        IN /\ Cardinality(lengthAt) = IF addArgs.length.some THEN 1 ELSE 0
           /\ \A i \in lengthAt :
                 /\ pre[i - 1] = CRLF
                 /\ pre[i + 1] = ToString(addArgs.length.val)
                 /\ pre[i + 2] = CRLF
           /\ Cardinality(typeAt) = 1
           /\ \A i \in typeAt :
                 /\ pre[i - 1] = CRLF
                 /\ SubSeq(pre, i + 1, i + 2) = boundary
                 /\ pre[i + 3] = CRLF
           /\ IsSuffix(<<CRLF, "--">> \o boundary \o <<CRLF, CRLF>>, pre)

\* C8 witness: a preamble with a declared length of 4 has been emitted.
C8_Witness ==
    /\ bodyOut # <<>>
    /\ addArgs.length = [some |-> TRUE, val |-> 4]
    /\ Count(bodyOut[1], "Content-Length: ") = 1

\* C9: an operation with input futures dispatches its request only after
\* every input and the endpoint resolution have completed, and at most one
\* request; once an input has failed no request is dispatched, the operation
\* can only end with an error, and a poll ends it.
C9_DispatchAfterInputs ==
    Arity(op) > 0 =>
        /\ Len(requests) <= 1
        /\ requests # <<>> => (AllInputsOk /\ urlRes # Unresolved)
        /\ SomeInputFailed =>
              /\ requests = <<>>
              /\ pc \in {"inputs", "done"}
              /\ pc = "done" => result.kind = "err"
              /\ pc = "inputs" => ENABLED PollInputs

\* C9 witness: linkPatch ended with an error after its third input failed
\* last, the others having completed with values.
C9_Witness ==
    /\ op = "linkPatch"
    /\ completed = <<4, 1, 2, 3>>
    /\ inputs[3].st = "err"
    /\ inputs[1].st = "ok" /\ inputs[2].st = "ok" /\ inputs[4].st = "ok"
    /\ urlRes.ok
    /\ pc = "done"
    /\ result = Err(inputs[3].err)
    /\ requests = <<>>

\* C10: the request of linkPatch is for /api/v0/object/patch/add-link with
\* the query arg=<modifyHash>, arg=<name>, arg=<addHash>,
\* create=<createFlag> in this order, each value that of its own input,
\* whatever the order in which the inputs completed.
C10_LinkPatchArgumentOrder ==
    (op = "linkPatch" /\ requests # <<>>) =>
        /\ requests[1].url.path = <<"api/v0/object/patch/add-link">>
        /\ requests[1].url.query =
              << <<"arg", <<inputs[1].val>> >>,
                 <<"arg", <<inputs[2].val>> >>,
                 <<"arg", <<inputs[3].val>> >>,
                 <<"create", <<inputs[4].val>> >> >>

\* C10 witness: the request went out after the inputs completed in reverse
\* order with different values.
C10_Witness ==
    /\ op = "linkPatch"
    /\ Len(requests) = 1
    /\ completed = <<4, 3, 2, 1>>
    /\ inputs[1].val = "QmA"
    /\ inputs[2].val = "QmB"
    /\ inputs[3].val = "QmA"
    /\ inputs[4].val = "false"

====
